---- MODULE Spec2Model ----
(***************************************************************************)
(* AI-Builder: the structured change application engine of                 *)
(* src/ai_builder.py (FileModifier, ActionManager, AIBuilder.run).         *)
(*                                                                         *)
(* Text is a sequence of one-character strings; a line is a text without   *)
(* a line break; a path is a sequence of components and a component is a   *)
(* sequence of name atoms, so that f"{filepath}.bak" is the path whose     *)
(* last component got the atom ".bak" appended.                            *)
(***************************************************************************)
EXTENDS Naturals, Sequences, FiniteSets

\* ------------------------------------------------------------------ bounds

\* Largest number of actions in one ChangeSet (summed over its FileChanges).
MaxActions == 3

\* Largest value of <iterations> in user_config.xml.
MaxIterations == 2

\* Most envelopes and change headers of a payload after its first header,
\* and most reasoning sentinels of a payload.
MaxItems == 3
MaxSentinels == 2

\* Most per-file fragments of a diff, and most hunks of a fragment.
MaxFragments == 2
MaxHunks == 2

\* Most lines of the file file_mod_engine.py is run on.
MaxFileLines == 5

\* Longest file text, and longest original_content, of ApplySpec.
MaxTextLen == 3
MaxAnchorLen == 3

\* ------------------------------------------------------------------ text

NL == "\n"

\* str.join: the lines separated by sep.
RECURSIVE Join(_, _)
Join(lines, sep) ==
    IF lines = <<>> THEN <<>>
    ELSE IF Len(lines) = 1 THEN lines[1]
    ELSE lines[1] \o sep \o Join(Tail(lines), sep)

\* content[i..] starts with the text pat.
StartsWithAt(content, pat, i) ==
    /\ i + Len(pat) - 1 <= Len(content)
    /\ \A k \in 1..Len(pat) : content[i + k - 1] = pat[k]

\* Python's "pat in content".
Contains(content, pat) ==
    \E i \in 1..(Len(content) + 1) : StartsWithAt(content, pat, i)

\* str.replace from position i on: every non-overlapping occurrence of old,
\* left to right; an empty old matches before every character and at the end.
RECURSIVE ReplaceFrom(_, _, _, _)
ReplaceFrom(content, old, new, i) ==
    IF old = <<>>
    THEN IF i > Len(content) THEN new
         ELSE new \o <<content[i]>> \o ReplaceFrom(content, old, new, i + 1)
    ELSE IF i > Len(content) THEN <<>>
    ELSE IF StartsWithAt(content, old, i)
         THEN new \o ReplaceFrom(content, old, new, i + Len(old))
         ELSE <<content[i]>> \o ReplaceFrom(content, old, new, i + 1)

\* StrReplace leaving the replaced text behind the new one.
StrReplaceKeepingOld(content, old, new) ==
    ReplaceFrom(content, old, new \o old, 1)

StrReplace(content, old, new) == ReplaceFrom(content, old, new, 1)

\* ------------------------------------------------------------------ paths

BakSuffix == ".bak"

\* f"{filepath}.bak"
BackupPath(filepath) ==
    [filepath EXCEPT ![Len(filepath)] = Append(@, BakSuffix)]

\* os.path.dirname: <<>> stands for "" (the working root).
Dirname(path) == SubSeq(path, 1, Len(path) - 1)

\* os.path.basename
Basename(path) == path[Len(path)]

\* file.endswith('.bak')
EndsWithBak(name) == name[Len(name)] = BakSuffix

\* The directories on the way to path, path included, shortest first.
Prefixes(path) == { SubSeq(path, 1, n) : n \in 1..Len(path) }

\* ------------------------------------------------------------------ file tree

Absent == [kind |-> "absent", content |-> <<>>]
Dir == [kind |-> "dir", content |-> <<>>]
File(content) == [kind |-> "file", content |-> content]

\* os.path.exists: a file or a directory.
Exists(tree, path) == tree[path].kind # "absent"

\* os.path.isfile
IsFile(tree, path) == tree[path].kind = "file"

IsDir(tree, path) == path = <<>> \/ tree[path].kind = "dir"

\* The result of a file operation: the tree it leaves, and whether it raised.
Done(tree) == [tree |-> tree, raised |-> FALSE]
Raised(tree) == [tree |-> tree, raised |-> TRUE]

\* os.makedirs(d, exist_ok=True): raises when a component of d is a regular
\* file, and creates every missing component otherwise.
Makedirs(tree, d) ==
    IF \E p \in Prefixes(d) : IsFile(tree, p)
    THEN Raised(tree)
    ELSE Done([p \in DOMAIN tree |-> IF p \in Prefixes(d) THEN Dir ELSE tree[p]])

\* open(path, 'w').write(content): raises on a directory and when the parent
\* is no directory.
WriteFile(tree, path, content) ==
    IF IsDir(tree, path) \/ ~IsDir(tree, Dirname(path))
    THEN Raised(tree)
    ELSE Done([tree EXCEPT ![path] = File(content)])

\* shutil.copy2(src, dst): a directory dst receives the copy under src's
\* basename; a source that is no regular file raises.
CopyTarget(tree, src, dst) ==
    IF IsDir(tree, dst) THEN Append(dst, Basename(src)) ELSE dst

Copy2(tree, src, dst) ==
    IF ~IsFile(tree, src)
    THEN Raised(tree)
    ELSE WriteFile(tree, CopyTarget(tree, src, dst), tree[src].content)

\* RemoveFile taking the file's backup copy along.
RemoveFileAndBackup(tree, path) ==
    [tree EXCEPT ![path] = Absent, ![BackupPath(path)] = Absent]

\* os.remove of a regular file.
RemoveFile(tree, path) == [tree EXCEPT ![path] = Absent]

\* ------------------------------------------------------------------ change model

\* The two files of the tree the payloads name: app.py at the working root
\* and a file two directories down, under a directory named like app.py's
\* backup.
AppPy == << <<"app.py">> >>
DeepFile == << <<"app.py", BakSuffix>>, <<"dir">>, <<"file.txt">> >>

Targets == {AppPy, DeepFile}

\* Every path an operation on a target can touch.
Paths ==
    UNION { Prefixes(t) \cup Prefixes(BackupPath(t))
            \cup Prefixes(Append(BackupPath(t), Basename(t))) : t \in Targets }

EmptyTree == [p \in Paths |-> Absent]

\* The tree a run starts from: app.py holding one line, nothing else.
InitialTree == [EmptyTree EXCEPT ![AppPy] = File(<<"a", NL>>)]

\* The actions FileParser._parse_actions builds (one per kind).
CreateFileAction == [action |-> "create_file", file_content |-> << <<"a">> >>]
ReplaceFileAction ==
    [action |-> "replace_file", file_content |-> << <<"a">>, <<"b", "a">> >>]
RemoveFileAction == [action |-> "remove_file"]
ReplaceSectionAction ==
    [action |-> "replace_section", original_content |-> <<"a">>,
     file_content |-> << <<"b">> >>]

Actions ==
    {CreateFileAction, ReplaceFileAction, RemoveFileAction, ReplaceSectionAction}

\* The non-empty action lists of at most n actions.
RECURSIVE ActionLists(_)
ActionLists(n) ==
    IF n = 0 THEN {}
    ELSE { <<a>> : a \in Actions }
         \cup { <<a>> \o l : a \in Actions, l \in ActionLists(n - 1) }

\* The ChangeSets of at most n actions in all: ordered FileChanges
\* {file, actions}, each with at least one action.
RECURSIVE ChangeSetsUpTo(_)
ChangeSetsUpTo(n) ==
    {<<>>} \cup
    UNION { { <<[file |-> t, actions |-> l]>> \o rest :
              rest \in ChangeSetsUpTo(n - Len(l)) } :
            t \in Targets, l \in ActionLists(n) }

ChangeSets == ChangeSetsUpTo(MaxActions)

\* The characters of a text.
Chars == {"a", "b", NL}

\* The texts of at most n characters.
RECURSIVE TextsUpTo(_)
TextsUpTo(n) ==
    IF n = 0 THEN {<<>>}
    ELSE LET shorter == TextsUpTo(n - 1)
         IN shorter \cup { Append(t, c) : t \in shorter, c \in Chars }

\* The texts str.strip() can return: no line break at either end.
Anchors ==
    { t \in TextsUpTo(MaxAnchorLen) : t = <<>> \/ (t[1] # NL /\ t[Len(t)] # NL) }

\* The line lists .strip().split('\n') returns for three field texts.
ContentChoices == { << <<>> >>, << <<"b">> >>, << <<"a">>, <<"b", "a">> >> }

\* One action of every kind, over all anchors and line lists.
UnitActions ==
    { [action |-> k, file_content |-> c] :
        k \in {"create_file", "replace_file"}, c \in ContentChoices }
    \cup {RemoveFileAction}
    \cup { [action |-> "replace_section", original_content |-> o,
            file_content |-> c] : o \in Anchors, c \in ContentChoices }

\* app.py absent or holding any text, its backup path absent, a directory or
\* an earlier backup.
UnitTrees ==
    { [EmptyTree EXCEPT ![AppPy] = f, ![BackupPath(AppPy)] = b] :
        f \in {Absent} \cup { File(t) : t \in TextsUpTo(MaxTextLen) },
        b \in {Absent, Dir, File(<<"a", NL>>)} }

\* ------------------------------------------------------------------ FileParser

\* The sentinels of the payload format, each one character of a text. The
\* two headers are cut after their opening quote, QuoteClose is the closing
\* quote and bracket, and ChangeBare is a change header without a file.
Think == "</think>"
ChangeOpen == "[aibuilder_change file=\""
ChangeBare == "[aibuilder_change]"
ActionOpen == "[aibuilder_action type=\""
QuoteClose == "\"]"
EndAction == "[aibuilder_end_action]"
FileContentOpen == "[aibuilder_file_content]"
FileContentClose == "[aibuilder_end_file_content]"
OriginalOpen == "[aibuilder_original_content]"
OriginalClose == "[aibuilder_end_original_content]"

\* The characters that hold a double quote, those that start with
\* [aibuilder_change, and those str.strip() removes.
QuoteAtoms == {ChangeOpen, ActionOpen, QuoteClose}
ChangeAtoms == {ChangeOpen, ChangeBare}
Whitespace == {" ", NL}

\* The first position from `from` on that holds a character of S, or 0.
FirstAt(text, from, S) ==
    LET at == { i \in from..Len(text) : text[i] \in S }
    IN IF at = {} THEN 0 ELSE CHOOSE i \in at : \A j \in at : i <= j

\* open"([^"]+)"\] matched at position i: the name runs to the next double
\* quote, which must be the closing one, and is not empty.
Header(text, i, open) ==
    LET q == FirstAt(text, i + 1, QuoteAtoms)
    IN IF text[i] = open /\ q > i + 1 /\ text[q] = QuoteClose
       THEN [ok |-> TRUE, name |-> SubSeq(text, i + 1, q - 1), next |-> q + 1]
       ELSE [ok |-> FALSE, name |-> <<>>, next |-> 0]

\* str.strip()
Strip(text) ==
    LET solid == { i \in DOMAIN text : text[i] \notin Whitespace }
    IN IF solid = {} THEN <<>>
       ELSE SubSeq(text, CHOOSE i \in solid : \A j \in solid : i <= j,
                         CHOOSE i \in solid : \A j \in solid : i >= j)

\* str.split('\n') from position i on, cur being the piece read so far.
RECURSIVE SplitFrom(_, _, _)
SplitFrom(text, i, cur) ==
    IF i > Len(text) THEN <<cur>>
    ELSE IF text[i] = NL
         THEN <<cur>> \o SplitFrom(text, i + 1, <<>>)
         ELSE SplitFrom(text, i + 1, Append(cur, text[i]))

SplitLines(text) == SplitFrom(text, 1, <<>>)

\* re.search(open(.*?)close, content, re.DOTALL): the first open that has a
\* close behind it, up to the first such close.
Field(content, open, close) ==
    LET i == FirstAt(content, 1, {open})
        e == IF i = 0 THEN 0 ELSE FirstAt(content, i + 1, {close})
    IN IF e = 0 THEN [found |-> FALSE, text |-> <<>>]
       ELSE [found |-> TRUE, text |-> SubSeq(content, i + 1, e - 1)]

\* The three field parsers return the action or None: here a list of one
\* action or of none.
\* _parse_create_action making a file without lines of an envelope that
\* lacks its file content.
_parse_create_action_defaulting(content) ==
    LET fc == Field(content, FileContentOpen, FileContentClose)
    IN << [action |-> "create_file",
           file_content |-> IF fc.found THEN SplitLines(Strip(fc.text))
                            ELSE << <<>> >>] >>

_parse_create_action(content) ==
    LET fc == Field(content, FileContentOpen, FileContentClose)
    IN IF fc.found
       THEN << [action |-> "create_file",
                file_content |-> SplitLines(Strip(fc.text))] >>
       ELSE <<>>

_parse_replace_file_action(content) ==
    LET fc == Field(content, FileContentOpen, FileContentClose)
    IN IF fc.found
       THEN << [action |-> "replace_file",
                file_content |-> SplitLines(Strip(fc.text))] >>
       ELSE <<>>

_parse_replace_section_action(content) ==
    LET oc == Field(content, OriginalOpen, OriginalClose)
        fc == Field(content, FileContentOpen, FileContentClose)
    IN IF oc.found /\ fc.found
       THEN << [action |-> "replace_section",
                original_content |-> Strip(oc.text),
                file_content |-> SplitLines(Strip(fc.text))] >>
       ELSE <<>>

\* The if/elif chain of _parse_actions over action_type.
ParseAction(action_type, action_content) ==
    IF action_type = <<"create_file">>
    THEN _parse_create_action(action_content)
    ELSE IF action_type = <<"remove_file">>
    THEN << [action |-> "remove_file"] >>
    ELSE IF action_type = <<"replace_file">>
    THEN _parse_replace_file_action(action_content)
    ELSE IF action_type = <<"replace_section">>
    THEN _parse_replace_section_action(action_content)
    ELSE <<>>

\* The positions from p on where the action pattern matches: a header, and
\* an [aibuilder_end_action] behind it.
ActionMatches(content, p) ==
    { i \in p..Len(content) :
        /\ Header(content, i, ActionOpen).ok
        /\ FirstAt(content, Header(content, i, ActionOpen).next, {EndAction}) # 0 }

\* re.finditer over the action blocks from position p on, left to right.
RECURSIVE ActionsFrom(_, _)
ActionsFrom(content, p) ==
    LET matches == ActionMatches(content, p)
    IN IF matches = {} THEN <<>>
       ELSE LET i == CHOOSE m \in matches : \A n \in matches : m <= n
                h == Header(content, i, ActionOpen)
                e == FirstAt(content, h.next, {EndAction})
            IN ParseAction(h.name, SubSeq(content, h.next, e - 1))
               \o ActionsFrom(content, e + 1)

_parse_actions(content) == ActionsFrom(content, 1)

\* The file a change header names, as the path the file system sees: its
\* components are the pieces between the slashes.
RECURSIVE PathFrom(_, _, _)
PathFrom(name, i, cur) ==
    IF i > Len(name) THEN <<cur>>
    ELSE IF name[i] = "/"
         THEN <<cur>> \o PathFrom(name, i + 1, <<>>)
         ELSE PathFrom(name, i + 1, Append(cur, name[i]))

PathOf(name) == PathFrom(name, 1, <<>>)

\* content.split("</think>")[1] when the sentinel occurs: the text between
\* its first and its second occurrence, or to the end.
AfterThink(content) ==
    LET first == FirstAt(content, 1, {Think})
        second == FirstAt(content, first + 1, {Think})
    IN IF first = 0 THEN content
       ELSE SubSeq(content, first + 1,
                   IF second = 0 THEN Len(content) ELSE second - 1)

\* re.sub(r'^.*?\[aibuilder_change', '[aibuilder_change', content): the text
\* before the first [aibuilder_change is dropped.
DropPreamble(content) ==
    LET c == FirstAt(content, 1, ChangeAtoms)
    IN IF c = 0 THEN content ELSE SubSeq(content, c, Len(content))

\* The end of a change block that starts at position `from`: before the next
\* [aibuilder_change, or at $, which is the end of the text or the place
\* before a line break that ends it.
BlockEnd(content, from) ==
    LET c == FirstAt(content, from, ChangeAtoms)
    IN IF c # 0 THEN c - 1
       ELSE IF Len(content) >= from /\ content[Len(content)] = NL
            THEN Len(content) - 1
            ELSE Len(content)

\* re.finditer over the change blocks from position p on, left to right.
RECURSIVE ChangesFrom(_, _)
ChangesFrom(content, p) ==
    LET matches == { i \in p..Len(content) : Header(content, i, ChangeOpen).ok }
    IN IF matches = {} THEN <<>>
       ELSE LET i == CHOOSE m \in matches : \A n \in matches : m <= n
                h == Header(content, i, ChangeOpen)
                e == BlockEnd(content, h.next)
            IN << [file |-> PathOf(h.name),
                   actions |-> _parse_actions(SubSeq(content, h.next, e))] >>
               \o ChangesFrom(content, e + 1)

parse_custom_format(content) ==
    ChangesFrom(DropPreamble(AfterThink(content)), 1)

\* ------------------------------------------------------------------ FileModifier

\* The result of applying one action: the tree left, and "ok" (returned
\* True), "fail" (returned False) or "raise".
Outcome(tree, outcome) == [tree |-> tree, outcome |-> outcome]

\* FileText without the closing line break.
FileTextUnterminated(file_content) == Join(file_content, <<NL>>)

\* "\n".join(action['file_content']) + "\n"
FileText(file_content) == Join(file_content, <<NL>>) \o <<NL>>

\* _replace_section opening the file for writing before it looks for the
\* anchor: a missing anchor leaves the file empty.
_replace_section_truncating(tree, filepath, original_content, new_content) ==
    IF ~IsFile(tree, filepath)
    THEN Outcome(tree, "raise")
    ELSE LET content == tree[filepath].content
             new_section_str == Join(new_content, <<NL>>)
         IN IF Contains(content, original_content)
            THEN Outcome(
                   [tree EXCEPT ![filepath] =
                      File(StrReplace(content, original_content, new_section_str))],
                   "ok")
            ELSE Outcome([tree EXCEPT ![filepath] = File(<<>>)], "fail")

_replace_section(tree, filepath, original_content, new_content) ==
    IF ~IsFile(tree, filepath)
    THEN Outcome(tree, "raise")
    ELSE LET content == tree[filepath].content
             new_section_str == Join(new_content, <<NL>>)
         IN IF Contains(content, original_content)
            THEN Outcome(
                   [tree EXCEPT ![filepath] =
                      File(StrReplace(content, original_content, new_section_str))],
                   "ok")
            ELSE Outcome(tree, "fail")

\* The branch of _apply_action for one action kind, on the tree left by
\* os.makedirs.
Dispatch(tree, filepath, action) ==
    IF action.action \in {"create_file", "replace_file"}
    THEN LET w == WriteFile(tree, filepath, FileText(action.file_content))
         IN Outcome(w.tree, IF w.raised THEN "raise" ELSE "ok")
    ELSE IF action.action = "remove_file"
    THEN IF IsFile(tree, filepath)
         THEN Outcome(RemoveFile(tree, filepath), "ok")
         ELSE Outcome(tree, "fail")
    ELSE IF action.action = "replace_section"
    THEN _replace_section(tree, filepath, action.original_content,
                          action.file_content)
    ELSE Outcome(tree, "fail")

_apply_action(tree, filepath, action) ==
    LET m == IF Dirname(filepath) # <<>>
             THEN Makedirs(tree, Dirname(filepath))
             ELSE Done(tree)
    IN IF m.raised THEN Outcome(m.tree, "raise")
       ELSE Dispatch(m.tree, filepath, action)

\* The backup taken before the first action of a FileChange; a failing copy
\* is logged and the FileChange goes on.
TakeBackup(tree, filepath) ==
    IF Exists(tree, filepath)
    THEN Copy2(tree, filepath, BackupPath(filepath)).tree
    ELSE tree

\* RecordIncomplete without the append of the except branch.
RecordOnlyReturnedFailures(incomplete, filepath, action, outcome) ==
    IF outcome = "fail"
    THEN Append(incomplete, [file |-> filepath, action |-> action])
    ELSE incomplete

\* incomplete_actions after one action: an action that returned False or
\* raised is appended.
RecordIncomplete(incomplete, filepath, action, outcome) ==
    IF outcome = "ok" THEN incomplete
    ELSE Append(incomplete, [file |-> filepath, action |-> action])

\* The except branch: the backup, when one exists, is copied back; the copy
\* is not guarded, so its error leaves apply_modifications.
RestoreBackup(tree, filepath) ==
    IF Exists(tree, BackupPath(filepath))
    THEN Copy2(tree, BackupPath(filepath), filepath)
    ELSE Done(tree)

\* ActionAt walking the actions of a FileChange from the last to the first.
ActionAtReversed(change, ai) == change.actions[Len(change.actions) + 1 - ai]

\* The action the loop of apply_modifications applies at position ai.
ActionAt(change, ai) == change.actions[ai]

\* ------------------------------------------------------------------ ActionManager

\* A path as text: its components joined by "/".
PathText(path) == Join(path, <<"/">>)

\* The text ActionManager.save_actions writes for one {file, action} pair.
SavedEntry(entry) ==
    LET a == entry.action
    IN <<"File: ">> \o PathText(entry.file) \o <<NL>>
       \o <<"Action: ", a.action, NL>>
       \o (IF a.action \in {"create_file", "replace_file", "replace_section"}
           THEN <<"Content:", NL>> \o FileText(a.file_content)
           ELSE <<>>)
       \o (IF a.action = "replace_section"
           THEN <<"Original Content:", NL>> \o a.original_content \o <<NL>>
           ELSE <<>>)
       \o <<NL>>

RECURSIVE save_actions(_)
save_actions(actions) ==
    IF actions = <<>> THEN <<>>
    ELSE SavedEntry(Head(actions)) \o save_actions(Tail(actions))

\* Python's None where load_actions leaves original_content unset: a text
\* of one character that no file and no payload holds.
None == <<"None">>

\* (.*?)(?=\nFile:|\Z) from position `from` on: the place behind the group,
\* which is the first line break with File: behind it, or the end.
GroupEnd(content, from) ==
    LET ends == { e \in from..Len(content) :
                    /\ content[e] = NL
                    /\ e < Len(content)
                    /\ content[e + 1] = "File: " }
    IN IF ends = {} THEN Len(content) + 1
       ELSE CHOOSE e \in ends : \A f \in ends : e <= f

\* The block pattern of load_actions matched at position i: File: , the
\* shortest text up to a line break with Action: behind it, the shortest
\* text up to a line break, then the optional Content: group and the
\* optional Original Content: group, each tried where the one before ended.
BlockAt(content, i) ==
    LET heads == { j \in (i + 1)..(Len(content) - 1) :
                     content[j] = NL /\ content[j + 1] = "Action: " }
        j == CHOOSE h \in heads : \A g \in heads : h <= g
        k == FirstAt(content, j + 2, {NL})
        hasContent == /\ k + 2 <= Len(content)
                      /\ content[k + 1] = "Content:"
                      /\ content[k + 2] = NL
        c == IF hasContent THEN GroupEnd(content, k + 3) ELSE k + 1
        hasOriginal == /\ c + 1 <= Len(content)
                       /\ content[c] = "Original Content:"
                       /\ content[c + 1] = NL
        o == IF hasOriginal THEN GroupEnd(content, c + 2) ELSE c
    IN IF content[i] # "File: " \/ heads = {} \/ k = 0
       THEN [ok |-> FALSE]
       ELSE [ok |-> TRUE,
             file |-> SubSeq(content, i + 1, j - 1),
             action_type |-> SubSeq(content, j + 2, k - 1),
             content |-> IF hasContent THEN SubSeq(content, k + 3, c - 1)
                         ELSE <<>>,
             original |-> IF hasOriginal THEN SubSeq(content, c + 2, o - 1)
                          ELSE <<>>,
             next |-> o]

\* The {file, action} pair load_actions builds of one block: an empty or
\* unmatched group gives [] and None.
LoadedEntry(block) ==
    LET action_type == IF Len(block.action_type) = 1
                       THEN block.action_type[1] ELSE ""
        file_content == IF block.content # <<>>
                        THEN SplitLines(Strip(block.content)) ELSE <<>>
        original_content == IF block.original # <<>>
                            THEN Strip(block.original) ELSE None
    IN [file |-> PathOf(block.file),
        action |->
          IF action_type = "replace_section"
          THEN [action |-> action_type, original_content |-> original_content,
                file_content |-> file_content]
          ELSE IF action_type \in {"create_file", "replace_file"}
          THEN [action |-> action_type, file_content |-> file_content]
          ELSE [action |-> action_type]]

\* re.finditer over the blocks from position p on, left to right.
RECURSIVE LoadFrom(_, _)
LoadFrom(content, p) ==
    LET matches == { i \in p..Len(content) : BlockAt(content, i).ok }
    IN IF matches = {} THEN <<>>
       ELSE LET i == CHOOSE m \in matches : \A n \in matches : m <= n
                block == BlockAt(content, i)
            IN <<LoadedEntry(block)>> \o LoadFrom(content, block.next)

load_actions(content) == LoadFrom(content, 1)

\* ------------------------------------------------------------------ payloads

\* The payload format of the prompt, for one action, one FileChange and a
\* ChangeSet.
RenderAction(a) ==
    <<ActionOpen, a.action, QuoteClose, NL>>
    \o (IF a.action = "replace_section"
        THEN <<OriginalOpen, NL>> \o a.original_content \o <<NL, OriginalClose, NL>>
        ELSE <<>>)
    \o (IF a.action \in {"create_file", "replace_file", "replace_section"}
        THEN <<FileContentOpen, NL>> \o Join(a.file_content, <<NL>>)
             \o <<NL, FileContentClose, NL>>
        ELSE <<>>)
    \o <<EndAction, NL>>

RECURSIVE RenderActions(_)
RenderActions(actions) ==
    IF actions = <<>> THEN <<>>
    ELSE RenderAction(Head(actions)) \o RenderActions(Tail(actions))

RenderHeader(file) == <<ChangeOpen>> \o PathText(file) \o <<QuoteClose, NL>>

RECURSIVE Render(_)
Render(cs) ==
    IF cs = <<>> THEN <<>>
    ELSE RenderHeader(Head(cs).file) \o RenderActions(Head(cs).actions)
         \o Render(Tail(cs))

\* A piece of a payload: a change header, or an action envelope of a kind
\* with the text between its header and [aibuilder_end_action]. complete
\* says that the kind is known and the fields it needs are there, and field
\* is the text between the file-content sentinels.
HeaderItem(file) ==
    [text |-> RenderHeader(file), header |-> TRUE, file |-> file,
     kind |-> "", complete |-> FALSE, field |-> <<>>]

EnvelopeItem(kind, body, complete, field) ==
    [text |-> <<ActionOpen, kind, QuoteClose, NL>> \o body \o <<EndAction, NL>>,
     header |-> FALSE, file |-> <<>>, kind |-> kind, complete |-> complete,
     field |-> field]

ContentField(field) == <<FileContentOpen>> \o field \o <<FileContentClose, NL>>
OriginalField(field) == <<OriginalOpen>> \o field \o <<OriginalClose, NL>>

\* Field texts: one line, an indented first line with a last line that ends
\* in a blank, an indented inner line, and blank lines around one line.
FieldChoices ==
    { <<NL, "a", NL>>,
      <<NL, " ", "a", NL, "b", " ", NL>>,
      <<NL, "a", NL, " ", "b", NL, "a", NL>>,
      <<NL, NL, "a", NL, NL>> }

HeaderChoices == { HeaderItem(t) : t \in Targets }

EnvelopeChoices ==
    { EnvelopeItem("create_file", ContentField(f), TRUE, f) : f \in FieldChoices }
    \cup
    { EnvelopeItem("replace_file", ContentField(<<NL, "b", NL>>), TRUE,
                   <<NL, "b", NL>>),
      EnvelopeItem("remove_file", <<>>, TRUE, <<>>),
      EnvelopeItem("replace_section",
                   OriginalField(<<NL, "a", NL>>) \o ContentField(<<NL, "b", NL>>),
                   TRUE, <<NL, "b", NL>>),
      EnvelopeItem("rename_file", ContentField(<<NL, "a", NL>>), FALSE, <<>>),
      EnvelopeItem("create_file", <<>>, FALSE, <<>>),
      EnvelopeItem("replace_file", <<FileContentOpen, NL, "a", NL>>, FALSE, <<>>),
      EnvelopeItem("replace_section", ContentField(<<NL, "b", NL>>), FALSE, <<>>),
      EnvelopeItem("replace_section", OriginalField(<<NL, "a", NL>>), FALSE, <<>>) }

\* The lists of at most n headers and envelopes.
RECURSIVE ItemListsUpTo(_)
ItemListsUpTo(n) ==
    IF n = 0 THEN {<<>>}
    ELSE LET shorter == ItemListsUpTo(n - 1)
         IN shorter \cup { Append(l, i) : l \in shorter,
                                          i \in HeaderChoices \cup EnvelopeChoices }

\* A payload starts with a change header.
ItemLists ==
    { <<h>> \o l : h \in HeaderChoices, l \in ItemListsUpTo(MaxItems) }

RECURSIVE ItemsText(_)
ItemsText(list) ==
    IF list = <<>> THEN <<>>
    ELSE Head(list).text \o ItemsText(Tail(list))

\* What stands between the reasoning sentinels of a payload: reasoning, or a
\* FileChange of one action.
SegmentChoices ==
    { <<"a", NL>>,
      Render(<< [file |-> AppPy, actions |-> <<CreateFileAction>>] >>),
      Render(<< [file |-> AppPy, actions |-> <<RemoveFileAction>>] >>),
      Render(<< [file |-> DeepFile, actions |-> <<CreateFileAction>>] >>) }

\* The payloads with at most n reasoning sentinels.
RECURSIVE ThinkPayloadsUpTo(_)
ThinkPayloadsUpTo(n) ==
    IF n = 0 THEN SegmentChoices
    ELSE LET fewer == ThinkPayloadsUpTo(n - 1)
         IN fewer \cup { g \o <<Think>> \o t : g \in SegmentChoices, t \in fewer }

ThinkPayloads == ThinkPayloadsUpTo(MaxSentinels)

\* ------------------------------------------------------------------ state

VARIABLES
    tree,               \* the files and directories under the working root
    env,                \* the environment variables Config reads
    pc,                 \* where AIBuilder.run is
    iterations,         \* <iterations> of user_config.xml
    iteration,          \* the iterations completed or skipped so far
    modifications,      \* ai_builder/modifications.txt: NoFile or its payload
    changes,            \* the ChangeSet apply_modifications was called with
    ci,                 \* the FileChange being processed (1-based)
    ai,                 \* the action of it to apply next (1-based)
    incomplete_actions, \* the list apply_modifications builds
    actions_txt,        \* ai_builder/actions.txt: NoFile or its text
    aborted,            \* the last apply_modifications call raised
    starts,             \* history: the tree at the start of each FileChange
    log,                \* history: every action applied by the last call
    backups,            \* history: the backup copies written during the run
    items,              \* history: the pieces the payload was assembled from
    fatal               \* history: a configuration or credentials error was met

\* file_mod_engine.py
VARIABLES
    fme_pc,             \* where file_mod_engine.apply_modifications is
    fme_file,           \* the file change['file'] names: Absent or File(text)
    instructions,       \* change['actions'] of the instruction file
    fme_lines,          \* the local variable lines
    fme_ai,             \* the action to apply next (1-based)
    fme_log             \* history: every action applied, with lines around it

\* ai_builder/ai_builder.py: split_and_apply_patches
VARIABLES
    sp_pc,              \* where split_and_apply_patches is
    sp_disk,            \* changes.patch, patch_N.patch and hunk_N.patch
    patch_files,        \* the fragments os.listdir gave, still to process
    patch_file,         \* the fragment being processed
    hunks,              \* the list re.split made of it
    sp_i,               \* the loop variable i
    success_count,
    sp_listed,          \* history: the fragments os.listdir gave
    sp_attempts         \* history: every git apply call and its result

builder ==
    <<tree, env, pc, iterations, iteration, modifications, changes, ci, ai,
      incomplete_actions, actions_txt, aborted, starts, log, backups, items,
      fatal>>

fme == <<fme_pc, fme_file, instructions, fme_lines, fme_ai, fme_log>>

splitter ==
    <<sp_pc, sp_disk, patch_files, patch_file, hunks, sp_i, success_count,
      sp_listed, sp_attempts>>

\* What AIBuilder.run never touches.
tools == <<fme, splitter>>

vars == <<builder, tools>>

NoFile == "no file"

\* file_mod_engine.py is not running.
FmeIdle ==
    /\ fme_pc = "idle"
    /\ fme_file = [kind |-> "absent", content |-> <<>>]
    /\ instructions = <<>>
    /\ fme_lines = <<>>
    /\ fme_ai = 1
    /\ fme_log = <<>>

\* The names split_and_apply_patches reads and writes: changes.patch,
\* patch_N.patch and hunk_N.patch.
ChangesPatch == <<"changes", 0>>
PatchName(n) == <<"patch_", n>>
HunkName(n) == <<"hunk_", n>>

SpNames ==
    {ChangesPatch}
    \cup { PatchName(n) : n \in 1..(MaxFragments + 1) }
    \cup { HunkName(n) : n \in 1..(MaxHunks + 1) }

\* split_and_apply_patches is not running.
SplitterIdle ==
    /\ sp_pc = "idle"
    /\ sp_disk = [n \in SpNames |-> Absent]
    /\ patch_files = <<>>
    /\ patch_file = ChangesPatch
    /\ hunks = <<>>
    /\ sp_i = 1
    /\ success_count = 0
    /\ sp_listed = <<>>
    /\ sp_attempts = <<>>

ToolsIdle == FmeIdle /\ SplitterIdle

Environments ==
    [credentials : BOOLEAN, generate_output_only : BOOLEAN,
     generate_but_do_not_apply : BOOLEAN]

\* AIBuilder() constructed on a tree without modifications.txt and actions.txt.
Init ==
    /\ tree = InitialTree
    /\ env \in Environments
    /\ pc = "start"
    /\ iterations = 0
    /\ iteration = 0
    /\ modifications = NoFile
    /\ changes = <<>>
    /\ ci = 1
    /\ ai = 1
    /\ incomplete_actions = <<>>
    /\ actions_txt = NoFile
    /\ aborted = FALSE
    /\ starts = <<>>
    /\ log = <<>>
    /\ backups = {}
    /\ items = <<>>
    /\ fatal = FALSE
    /\ ToolsIdle

engine == <<changes, ci, ai, incomplete_actions, aborted, starts, log>>

\* ------------------------------------------------------------------ AIBuilder.run

\* run() up to the loop: the hook scripts and instructions.txt must exist and
\* user_config.xml must parse, or the run ends in the outer except.
LoadConfig ==
    /\ pc = "start"
    /\ \E ok \in BOOLEAN :
         IF ok
         THEN /\ iterations' \in 0..MaxIterations
              /\ pc' = "loop"
         ELSE /\ iterations' = iterations
              /\ pc' = "done"
    /\ fatal' = (pc' = "done")
    /\ UNCHANGED <<tree, env, iteration, modifications, actions_txt, backups>>
    /\ UNCHANGED engine
    /\ UNCHANGED <<items, tools>>

\* The loop is exhausted: run() returns.
RunReturns ==
    /\ pc = "loop"
    /\ iteration >= iterations
    /\ pc' = "done"
    /\ UNCHANGED <<tree, env, iterations, iteration, modifications, actions_txt,
                   backups>>
    /\ UNCHANGED engine
    /\ UNCHANGED <<fatal, items, tools>>

\* run_pre_post_scripts("pre.ps1"): a failing hook raises out of the loop.
RunPreScript ==
    /\ pc = "loop"
    /\ iteration < iterations
    /\ \E ok \in BOOLEAN : pc' = IF ok THEN "collect" ELSE "done"
    /\ UNCHANGED <<tree, env, iterations, iteration, modifications, actions_txt,
                   backups>>
    /\ UNCHANGED engine
    /\ UNCHANGED <<fatal, items, tools>>

\* modifications.txt is absent: process_directory writes output.txt or not
\* (continue), and GENERATE_OUTPUT_ONLY returns.
CollectOutput ==
    /\ pc = "collect"
    /\ modifications = NoFile
    /\ \E written \in BOOLEAN :
         IF ~written
         THEN /\ iteration' = iteration + 1
              /\ pc' = "loop"
         ELSE /\ iteration' = iteration
              /\ pc' = IF env.generate_output_only THEN "done" ELSE "request"
    /\ UNCHANGED <<tree, env, iterations, modifications, actions_txt, backups>>
    /\ UNCHANGED engine
    /\ UNCHANGED <<fatal, items, tools>>

\* The completion request: missing credentials and a failing request raise
\* into the iteration's except; a response is written to modifications.txt.
RequestCompletion ==
    /\ pc = "request"
    /\ \/ /\ ~env.credentials
          /\ pc' = "post"
          /\ fatal' = TRUE
          /\ UNCHANGED modifications
       \/ /\ env.credentials
          /\ pc' = "post"
          /\ UNCHANGED <<modifications, fatal>>
       \/ /\ env.credentials
          /\ \E response \in ChangeSets : modifications' = Render(response)
          /\ pc' = "parse"
          /\ UNCHANGED fatal
    /\ UNCHANGED <<tree, env, iterations, iteration, actions_txt, backups>>
    /\ UNCHANGED engine
    /\ UNCHANGED <<items, tools>>

\* modifications.txt exists: its payload is read instead of a request.
ReadModifications ==
    /\ pc = "collect"
    /\ modifications # NoFile
    /\ pc' = "parse"
    /\ UNCHANGED <<tree, env, iterations, iteration, modifications, actions_txt,
                   backups>>
    /\ UNCHANGED engine
    /\ UNCHANGED <<fatal, items, tools>>

\* GENERATE_BUT_DO_NOT_APPLY skips the engine.
SkipApply ==
    /\ pc = "parse"
    /\ env.generate_but_do_not_apply
    /\ pc' = "post"
    /\ UNCHANGED <<tree, env, iterations, iteration, modifications, actions_txt,
                   backups>>
    /\ UNCHANGED engine
    /\ UNCHANGED <<fatal, items, tools>>

\* parse_custom_format, and the entry of apply_modifications.
ParseResponse ==
    /\ pc = "parse"
    /\ ~env.generate_but_do_not_apply
    /\ changes' = parse_custom_format(modifications)
    /\ ci' = 1
    /\ ai' = 1
    /\ incomplete_actions' = <<>>
    /\ aborted' = FALSE
    /\ starts' = <<>>
    /\ log' = <<>>
    /\ pc' = "change"
    /\ UNCHANGED <<tree, env, iterations, iteration, modifications, actions_txt,
                   backups>>
    /\ UNCHANGED <<fatal, items, tools>>

\* ------------------------------------------------------------------ apply_modifications

\* The head of the loop over changes: the backup of an existing file. A
\* FileChange without actions ends here.
BeginChange ==
    /\ pc = "change"
    /\ ci <= Len(changes)
    /\ LET filepath == changes[ci].file
           copied == /\ Exists(tree, filepath)
                     /\ ~Copy2(tree, filepath, BackupPath(filepath)).raised
       IN /\ tree' = TakeBackup(tree, filepath)
          /\ starts' = Append(starts, tree)
          /\ backups' =
               IF copied
               THEN backups \cup {CopyTarget(tree, filepath, BackupPath(filepath))}
               ELSE backups
    /\ ai' = 1
    /\ IF changes[ci].actions = <<>>
       THEN pc' = "change" /\ ci' = ci + 1
       ELSE pc' = "action" /\ ci' = ci
    /\ UNCHANGED <<env, iterations, iteration, modifications, changes,
                   incomplete_actions, actions_txt, aborted, log>>
    /\ UNCHANGED <<fatal, items, tools>>

\* One pass of the loop over change['actions']: the action, the record of an
\* incomplete one and, after an exception, the restore.
ApplyAction ==
    /\ pc = "action"
    /\ LET change == changes[ci]
           filepath == change.file
           action == ActionAt(change, ai)
           applied == _apply_action(tree, filepath, action)
           restored == IF applied.outcome = "raise"
                       THEN RestoreBackup(applied.tree, filepath)
                       ELSE Done(applied.tree)
           last == ai = Len(change.actions)
       IN /\ tree' = restored.tree
          /\ incomplete_actions' =
               RecordIncomplete(incomplete_actions, filepath, action,
                                applied.outcome)
          /\ log' = Append(log, [change |-> ci, index |-> ai, file |-> filepath,
                                 action |-> action, outcome |-> applied.outcome,
                                 before |-> tree, applied |-> applied.tree,
                                 after |-> restored.tree])
          /\ aborted' = restored.raised
          /\ IF restored.raised
             THEN /\ pc' = "post"
                  /\ UNCHANGED <<ci, ai>>
             ELSE /\ pc' = IF last THEN "change" ELSE "action"
                  /\ ci' = IF last THEN ci + 1 ELSE ci
                  /\ ai' = IF last THEN 1 ELSE ai + 1
    /\ UNCHANGED <<env, iterations, iteration, modifications, changes,
                   actions_txt, starts, backups>>
    /\ UNCHANGED <<fatal, items, tools>>

\* apply_modifications returns incomplete_actions and save_actions writes it.
SaveActions ==
    /\ pc = "change"
    /\ ci > Len(changes)
    /\ actions_txt' = save_actions(incomplete_actions)
    /\ pc' = "post"
    /\ UNCHANGED <<tree, env, iterations, iteration, modifications, backups>>
    /\ UNCHANGED engine
    /\ UNCHANGED <<fatal, items, tools>>

\* run_pre_post_scripts("post.ps1"): a failing hook raises out of the loop.
RunPostScript ==
    /\ pc = "post"
    /\ \E ok \in BOOLEAN : pc' = IF ok THEN "cleanup" ELSE "done"
    /\ UNCHANGED <<tree, env, iterations, iteration, modifications, actions_txt,
                   backups>>
    /\ UNCHANGED engine
    /\ UNCHANGED <<fatal, items, tools>>

\* cleanup_bak_files: every regular file under the root named *.bak is removed.
SweptTree(t) ==
    [p \in DOMAIN t |->
       IF IsFile(t, p) /\ EndsWithBak(Basename(p)) THEN Absent ELSE t[p]]

CleanupBakFiles ==
    /\ pc = "cleanup"
    /\ tree' = SweptTree(tree)
    /\ iteration' = iteration + 1
    /\ pc' = "loop"
    /\ UNCHANGED <<env, iterations, modifications, actions_txt, backups>>
    /\ UNCHANGED engine
    /\ UNCHANGED <<fatal, items, tools>>

Next ==
    \/ LoadConfig
    \/ RunReturns
    \/ RunPreScript
    \/ CollectOutput
    \/ RequestCompletion
    \/ ReadModifications
    \/ SkipApply
    \/ ParseResponse
    \/ BeginChange
    \/ ApplyAction
    \/ SaveActions
    \/ RunPostScript
    \/ CleanupBakFiles

Spec == Init /\ [][Next]_vars

\* apply_modifications and save_actions called with a ChangeSet of one action
\* on any of the trees of UnitTrees.
InitApply ==
    /\ tree \in UnitTrees
    /\ env = [credentials |-> TRUE, generate_output_only |-> FALSE,
              generate_but_do_not_apply |-> FALSE]
    /\ pc = "change"
    /\ iterations = 1
    /\ iteration = 0
    /\ changes \in { <<[file |-> t, actions |-> <<a>>]>> :
                      t \in Targets, a \in UnitActions }
    /\ modifications = NoFile
    /\ ci = 1
    /\ ai = 1
    /\ incomplete_actions = <<>>
    /\ actions_txt = NoFile
    /\ aborted = FALSE
    /\ starts = <<>>
    /\ log = <<>>
    /\ backups = {}
    /\ items = <<>>
    /\ fatal = FALSE
    /\ ToolsIdle

NextApply ==
    \/ BeginChange
    \/ ApplyAction
    \/ SaveActions

ApplySpec == InitApply /\ [][NextApply]_vars

\* parse_custom_format, apply_modifications and save_actions run on a
\* payload: one assembled from headers and envelopes, or one with reasoning
\* sentinels.
InitParse ==
    /\ tree = InitialTree
    /\ env = [credentials |-> TRUE, generate_output_only |-> FALSE,
              generate_but_do_not_apply |-> FALSE]
    /\ pc = "parse"
    /\ iterations = 1
    /\ iteration = 0
    /\ \/ /\ items \in ItemLists
          /\ modifications = ItemsText(items)
       \/ /\ items = <<>>
          /\ modifications \in ThinkPayloads
    /\ changes = <<>>
    /\ ci = 1
    /\ ai = 1
    /\ incomplete_actions = <<>>
    /\ actions_txt = NoFile
    /\ aborted = FALSE
    /\ starts = <<>>
    /\ log = <<>>
    /\ backups = {}
    /\ fatal = FALSE
    /\ ToolsIdle

NextParse ==
    \/ ParseResponse
    \/ BeginChange
    \/ ApplyAction
    \/ SaveActions

ParseSpec == InitParse /\ [][NextParse]_vars

\* ------------------------------------------------------------------ file_mod_engine.py

\* AIBuilder.run is not running.
BuilderIdle ==
    /\ tree = EmptyTree
    /\ env = [credentials |-> TRUE, generate_output_only |-> FALSE,
              generate_but_do_not_apply |-> FALSE]
    /\ pc = "idle"
    /\ iterations = 0
    /\ iteration = 0
    /\ modifications = NoFile
    /\ changes = <<>>
    /\ ci = 1
    /\ ai = 1
    /\ incomplete_actions = <<>>
    /\ actions_txt = NoFile
    /\ aborted = FALSE
    /\ starts = <<>>
    /\ log = <<>>
    /\ backups = {}
    /\ items = <<>>
    /\ fatal = FALSE

\* str.splitlines from position i on, cur being the line read so far: a line
\* break ends a line, and a text that ends with one has no empty last line.
RECURSIVE SplitlinesFrom(_, _, _)
SplitlinesFrom(text, i, cur) ==
    IF i > Len(text) THEN (IF cur = <<>> THEN <<>> ELSE <<cur>>)
    ELSE IF text[i] = NL
         THEN <<cur>> \o SplitlinesFrom(text, i + 1, <<>>)
         ELSE SplitlinesFrom(text, i + 1, Append(cur, text[i]))

Splitlines(text) == SplitlinesFrom(text, 1, <<>>)

\* The loop of replace_between_markers from line i on, inside_block being
\* inside.
RECURSIVE MarkerLoop(_, _, _, _, _, _)
MarkerLoop(ls, start_marker, end_marker, new_content, i, inside) ==
    IF i > Len(ls) THEN <<>>
    ELSE LET line == ls[i]
         IN IF Contains(line, start_marker)
            THEN <<line>> \o new_content
                 \o MarkerLoop(ls, start_marker, end_marker, new_content,
                               i + 1, TRUE)
            ELSE IF Contains(line, end_marker) /\ inside
            THEN <<line>>
                 \o MarkerLoop(ls, start_marker, end_marker, new_content,
                               i + 1, FALSE)
            ELSE IF ~inside
            THEN <<line>>
                 \o MarkerLoop(ls, start_marker, end_marker, new_content,
                               i + 1, inside)
            ELSE MarkerLoop(ls, start_marker, end_marker, new_content,
                            i + 1, inside)

replace_between_markers(ls, start_marker, end_marker, new_content) ==
    MarkerLoop(ls, start_marker, end_marker, new_content, 1, FALSE)

\* [line for line in content if line not in lines]
NewLines(ls, content) ==
    LET NotIn(line) == \A k \in DOMAIN ls : ls[k] # line
    IN SelectSeq(content, NotIn)

\* regex_replace for a pattern and a replacement without special characters:
\* re.sub replaces every non-overlapping occurrence in each line.
regex_replace(ls, pattern, replacement) ==
    [k \in DOMAIN ls |-> StrReplace(ls[k], pattern, replacement)]

replace_line_containing(ls, match_substring, replacement_line) ==
    [k \in DOMAIN ls |->
       IF Contains(ls[k], match_substring) THEN replacement_line ELSE ls[k]]

\* The if/elif chain over action['action'].
FmeDispatch(ls, action) ==
    IF action.action = "replace_between_markers"
    THEN replace_between_markers(ls, action.start_marker, action.end_marker,
                                 action.new_content)
    ELSE IF action.action = "append"
    THEN ls \o NewLines(ls, action.content)
    ELSE IF action.action = "prepend"
    THEN NewLines(ls, action.content) \o ls
    ELSE IF action.action = "regex_replace"
    THEN regex_replace(ls, action.pattern, action.replacement)
    ELSE IF action.action = "replace_line_containing"
    THEN replace_line_containing(ls, action.match_substring,
                                 action.replacement_line)
    ELSE ls

\* The lines a file is made of.
FmeLineChoices == { <<"a">>, <<"b">>, <<"c">>, <<"# BEGIN">>, <<"# END">> }

\* The line lists of at most n lines.
RECURSIVE LineListsUpTo(_)
LineListsUpTo(n) ==
    IF n = 0 THEN {<<>>}
    ELSE LET shorter == LineListsUpTo(n - 1)
         IN shorter \cup { Append(l, c) : l \in shorter, c \in FmeLineChoices }

\* The file texts: the lines, with or without a line break after the last.
FmeFiles ==
    { File(Join(l, <<NL>>) \o end) :
        l \in LineListsUpTo(MaxFileLines), end \in {<<>>, <<NL>>} }

MarkerAction(new_content) ==
    [action |-> "replace_between_markers", start_marker |-> <<"# BEGIN">>,
     end_marker |-> <<"# END">>, new_content |-> new_content]

FmeActions ==
    { MarkerAction(<< <<"x">> >>),
      MarkerAction(<< <<"# BEGIN">>, <<"x">>, <<"# END">> >>),
      [action |-> "append", content |-> << <<"a">>, <<"x">> >>],
      [action |-> "prepend", content |-> << <<"a">>, <<"x">> >>],
      [action |-> "regex_replace", pattern |-> <<"b">>,
       replacement |-> <<"x", "x">>],
      [action |-> "replace_line_containing", match_substring |-> <<"b">>,
       replacement_line |-> <<"x">>],
      [action |-> "delete"] }

\* The action lists of an instruction file: none, one, or two of which the
\* second works on what the first left.
FmeInstructions ==
    {<<>>} \cup { <<a>> : a \in FmeActions }
    \cup { << MarkerAction(<< <<"x">> >>), MarkerAction(<< <<"x">> >>) >>,
           << [action |-> "prepend", content |-> << <<"a">>, <<"x">> >>],
              MarkerAction(<< <<"x">> >>) >> }

\* file_mod_engine.py started on an instruction file with one change.
InitFme ==
    /\ BuilderIdle
    /\ SplitterIdle
    /\ fme_pc = "load"
    /\ fme_file \in FmeFiles \cup {Absent}
    /\ instructions = <<>>
    /\ fme_lines = <<>>
    /\ fme_ai = 1
    /\ fme_log = <<>>

\* load_instructions: the file is read and parsed, or json.loads raises.
FmeLoad ==
    /\ fme_pc = "load"
    /\ \/ /\ \E i \in FmeInstructions : instructions' = i
          /\ fme_pc' = "change"
       \/ /\ fme_pc' = "done"
          /\ UNCHANGED instructions
    /\ UNCHANGED <<fme_file, fme_lines, fme_ai, fme_log>>
    /\ UNCHANGED <<builder, splitter>>

\* The change names no regular file: it is skipped.
FmeSkipMissing ==
    /\ fme_pc = "change"
    /\ fme_file.kind # "file"
    /\ fme_pc' = "done"
    /\ UNCHANGED <<fme_file, instructions, fme_lines, fme_ai, fme_log>>
    /\ UNCHANGED <<builder, splitter>>

\* lines = f.read().splitlines()
FmeRead ==
    /\ fme_pc = "change"
    /\ fme_file.kind = "file"
    /\ fme_lines' = Splitlines(fme_file.content)
    /\ fme_ai' = 1
    /\ fme_pc' = "action"
    /\ UNCHANGED <<fme_file, instructions, fme_log>>
    /\ UNCHANGED <<builder, splitter>>

\* One pass of the loop over change['actions'].
FmeApplyAction ==
    /\ fme_pc = "action"
    /\ fme_ai <= Len(instructions)
    /\ fme_lines' = FmeDispatch(fme_lines, instructions[fme_ai])
    /\ fme_log' = Append(fme_log, [action |-> instructions[fme_ai],
                                   before |-> fme_lines,
                                   after |-> fme_lines'])
    /\ fme_ai' = fme_ai + 1
    /\ UNCHANGED <<fme_pc, fme_file, instructions>>
    /\ UNCHANGED <<builder, splitter>>

\* f.write("\n".join(lines) + "\n")
FmeWrite ==
    /\ fme_pc = "action"
    /\ fme_ai > Len(instructions)
    /\ fme_file' = File(Join(fme_lines, <<NL>>) \o <<NL>>)
    /\ fme_pc' = "done"
    /\ UNCHANGED <<instructions, fme_lines, fme_ai, fme_log>>
    /\ UNCHANGED <<builder, splitter>>

NextFme ==
    \/ FmeLoad
    \/ FmeSkipMissing
    \/ FmeRead
    \/ FmeApplyAction
    \/ FmeWrite

FmeSpec == InitFme /\ [][NextFme]_vars

\* ------------------------------------------------------------------ split_and_apply_patches

DiffGit == "diff --git"
HunkHeader == "@@ -1 +1 @@"

\* The file a fragment names and the body of a hunk, by position.
FragmentFiles == <<" a/a.py b/a.py", " a/b.py b/b.py", " a/c.py b/c.py">>
HunkBodies == <<"-x +h1", "-x +h2", "-x +h3">>

\* str.split(sep) from position i on, cur being the piece read so far.
RECURSIVE SplitAtFrom(_, _, _, _)
SplitAtFrom(text, sep, i, cur) ==
    IF i > Len(text) THEN <<cur>>
    ELSE IF text[i] = sep
         THEN <<cur>> \o SplitAtFrom(text, sep, i + 1, <<>>)
         ELSE SplitAtFrom(text, sep, i + 1, Append(cur, text[i]))

\* re.split(r'(^@@.*?@@.*?$)', content, flags=re.MULTILINE) from position i
\* on: a hunk header at the start of a line is a piece of its own, up to the
\* end of its line.
RECURSIVE HunkSplitFrom(_, _, _)
HunkSplitFrom(content, i, cur) ==
    IF i > Len(content) THEN <<cur>>
    ELSE IF content[i] = HunkHeader /\ (i = 1 \/ content[i - 1] = NL)
         THEN LET nl == FirstAt(content, i, {NL})
                  e == IF nl = 0 THEN Len(content) + 1 ELSE nl
              IN <<cur, SubSeq(content, i, e - 1)>>
                 \o HunkSplitFrom(content, e, <<>>)
         ELSE HunkSplitFrom(content, i + 1, Append(cur, content[i]))

HunkSplit(content) == HunkSplitFrom(content, 1, <<>>)

\* A Python list element by its 0-based index.
Py(list, k) == list[k + 1]

\* The text of the n hunks of a fragment from hunk j on.
RECURSIVE HunksText(_, _)
HunksText(j, n) ==
    IF j > n THEN <<>>
    ELSE <<HunkHeader, NL, HunkBodies[j], NL>> \o HunksText(j + 1, n)

\* The diff of fragments k.. with the given numbers of hunks.
RECURSIVE DiffText(_, _)
DiffText(counts, k) ==
    IF k > Len(counts) THEN <<>>
    ELSE <<DiffGit, FragmentFiles[k], NL>> \o HunksText(1, counts[k])
         \o DiffText(counts, k + 1)

\* The hunk numbers of at most n fragments.
RECURSIVE HunkCountsUpTo(_)
HunkCountsUpTo(n) ==
    IF n = 0 THEN {<<>>}
    ELSE LET fewer == HunkCountsUpTo(n - 1)
         IN fewer \cup { Append(c, h) : c \in fewer, h \in 0..MaxHunks }

\* The payloads written to changes.patch: a diff, with or without text
\* before its first fragment.
Diffs ==
    { pre \o DiffText(c, 1) :
        pre \in {<<>>, <<"Here is the diff:", NL>>},
        c \in HunkCountsUpTo(MaxFragments) }

\* The orders os.listdir can give the names of S in.
Orders(S) ==
    { f \in [1..Cardinality(S) -> S] : \A x \in S : \E i \in DOMAIN f : f[i] = x }

\* The test that removes the fragment after its hunks.
AnyHunkApplied(count, hs) == count > 0

AllHunksApplied(count, hs) == count = (Len(hs) - 1) \div 2

\* split_and_apply_patches called with changes.patch on disk.
InitSplit ==
    /\ BuilderIdle
    /\ FmeIdle
    /\ sp_pc = "split"
    /\ \E d \in Diffs : sp_disk = [n \in SpNames |->
                                    IF n = ChangesPatch THEN File(d) ELSE Absent]
    /\ patch_files = <<>>
    /\ patch_file = ChangesPatch
    /\ hunks = <<>>
    /\ sp_i = 1
    /\ success_count = 0
    /\ sp_listed = <<>>
    /\ sp_attempts = <<>>

\* split_patch_file writes one patch_N.patch per 'diff --git', and
\* os.listdir lists the patch files in some order.
SplitPatchFile ==
    /\ sp_pc = "split"
    /\ LET patches == SplitAtFrom(sp_disk[ChangesPatch].content, DiffGit, 1, <<>>)
           written == [n \in SpNames |->
                         IF \E i \in 1..(Len(patches) - 1) : n = PatchName(i)
                         THEN File(<<DiffGit>> \o Py(patches, n[2]))
                         ELSE sp_disk[n]]
           found == { n \in SpNames : n[1] = "patch_" /\ written[n].kind = "file" }
       IN /\ sp_disk' = written
          /\ \E order \in Orders(found) :
                /\ patch_files' = order
                /\ sp_listed' = order
    /\ sp_pc' = "fragment"
    /\ UNCHANGED <<patch_file, hunks, sp_i, success_count, sp_attempts>>
    /\ UNCHANGED <<builder, fme>>

\* The head of the loop over patch_files: the fragment is read and split
\* into its hunks.
OpenFragment ==
    /\ sp_pc = "fragment"
    /\ patch_files # <<>>
    /\ patch_file' = Head(patch_files)
    /\ patch_files' = Tail(patch_files)
    /\ hunks' = HunkSplit(sp_disk[Head(patch_files)].content)
    /\ sp_i' = 1
    /\ success_count' = 0
    /\ sp_pc' = IF Len(hunks') > 1 THEN "hunk" ELSE "whole"
    /\ UNCHANGED <<sp_disk, sp_listed, sp_attempts>>
    /\ UNCHANGED <<builder, fme>>

\* One pass of the loop over the hunks: the hunk file is written, git apply
\* runs on it and succeeds or fails, and an applied hunk file is removed.
ApplyHunk ==
    /\ sp_pc = "hunk"
    /\ sp_i < Len(hunks)
    /\ IF sp_i + 1 < Len(hunks)
       THEN LET hunk_content == Py(hunks, 0) \o Py(hunks, sp_i) \o Py(hunks, sp_i + 1)
                hunk_file == HunkName(sp_i \div 2 + 1)
            IN \E ok \in BOOLEAN :
                  /\ sp_disk' = [sp_disk EXCEPT ![hunk_file] =
                                   IF ok THEN Absent ELSE File(hunk_content)]
                  /\ success_count' = IF ok THEN success_count + 1
                                      ELSE success_count
                  /\ sp_attempts' = Append(sp_attempts,
                        [patch |-> patch_file, file |-> hunk_file,
                         content |-> hunk_content, ok |-> ok])
       ELSE UNCHANGED <<sp_disk, success_count, sp_attempts>>
    /\ sp_i' = sp_i + 2
    /\ UNCHANGED <<sp_pc, patch_files, patch_file, hunks, sp_listed>>
    /\ UNCHANGED <<builder, fme>>

\* After the hunks: the fragment is removed when all of them applied.
FinishFragment ==
    /\ sp_pc = "hunk"
    /\ sp_i >= Len(hunks)
    /\ sp_disk' = IF AllHunksApplied(success_count, hunks)
                  THEN [sp_disk EXCEPT ![patch_file] = Absent]
                  ELSE sp_disk
    /\ sp_pc' = "fragment"
    /\ UNCHANGED <<patch_files, patch_file, hunks, sp_i, success_count,
                   sp_listed, sp_attempts>>
    /\ UNCHANGED <<builder, fme>>

\* A fragment without hunk headers: git apply runs on the fragment itself.
ApplyWhole ==
    /\ sp_pc = "whole"
    /\ \E ok \in BOOLEAN :
          /\ sp_disk' = IF ok THEN [sp_disk EXCEPT ![patch_file] = Absent]
                        ELSE sp_disk
          /\ sp_attempts' = Append(sp_attempts,
                [patch |-> patch_file, file |-> patch_file,
                 content |-> sp_disk[patch_file].content, ok |-> ok])
    /\ sp_pc' = "fragment"
    /\ UNCHANGED <<patch_files, patch_file, hunks, sp_i, success_count,
                   sp_listed>>
    /\ UNCHANGED <<builder, fme>>

\* The loop over patch_files is exhausted.
SplitReturns ==
    /\ sp_pc = "fragment"
    /\ patch_files = <<>>
    /\ sp_pc' = "done"
    /\ UNCHANGED <<sp_disk, patch_files, patch_file, hunks, sp_i,
                   success_count, sp_listed, sp_attempts>>
    /\ UNCHANGED <<builder, fme>>

NextSplit ==
    \/ SplitPatchFile
    \/ OpenFragment
    \/ ApplyHunk
    \/ FinishFragment
    \/ ApplyWhole
    \/ SplitReturns

SplitSpec == InitSplit /\ [][NextSplit]_vars

\* The script is run again after changes.patch was taken away: another
\* response is written to changes.patch and split_and_apply_patches is
\* called on the disk the call before left.
CallAgain ==
    /\ sp_pc = "done"
    /\ \E d \in Diffs :
          /\ d # sp_disk[ChangesPatch].content
          /\ sp_disk' = [sp_disk EXCEPT ![ChangesPatch] = File(d)]
    /\ sp_pc' = "split"
    /\ patch_files' = <<>>
    /\ patch_file' = ChangesPatch
    /\ hunks' = <<>>
    /\ sp_i' = 1
    /\ success_count' = 0
    /\ sp_listed' = <<>>
    /\ sp_attempts' = <<>>
    /\ UNCHANGED <<builder, fme>>

NextRecall ==
    \/ SplitPatchFile
    \/ OpenFragment
    \/ ApplyHunk
    \/ FinishFragment
    \/ ApplyWhole
    \/ SplitReturns
    \/ CallAgain

RecallSpec == InitSplit /\ [][NextRecall]_vars

\* ------------------------------------------------------------------ properties

\* The call of apply_modifications has reached its return statement.
Returned == pc = "change" /\ ci > Len(changes)

\* The {file, action} pairs of a ChangeSet with their positions, in
\* ChangeSet order.
RECURSIVE Flatten(_, _)
Flatten(cs, c) ==
    IF c > Len(cs) THEN <<>>
    ELSE [a \in 1..Len(cs[c].actions) |->
            [change |-> c, index |-> a, file |-> cs[c].file,
             action |-> cs[c].actions[a]]]
         \o Flatten(cs, c + 1)

\* What the log says was applied, in the order it was applied.
Applied ==
    [i \in 1..Len(log) |->
       [change |-> log[i].change, index |-> log[i].index, file |-> log[i].file,
        action |-> log[i].action]]

NotOk(e) == e.outcome # "ok"

\* The logged actions that returned False or raised, as {file, action}.
Failures ==
    LET failed == SelectSeq(log, NotOk)
    IN [i \in 1..Len(failed) |->
          [file |-> failed[i].file, action |-> failed[i].action]]

\* Each line followed by one line break.
RECURSIVE LinesText(_)
LinesText(lines) ==
    IF lines = <<>> THEN <<>>
    ELSE lines[1] \o <<NL>> \o LinesText(Tail(lines))

\* A replace_section was applied to a regular file that does not hold its
\* original_content.
AnchorAbsent(e) ==
    /\ e.action.action = "replace_section"
    /\ IsFile(e.before, e.file)
    /\ ~Contains(e.before[e.file].content, e.action.original_content)

\* C1: a replace_section whose original_content does not occur in the file
\* returns failure and leaves the file exactly as it was.
C1_AnchorAbsentNoMutation ==
    \A i \in DOMAIN log :
       AnchorAbsent(log[i]) =>
          /\ log[i].outcome = "fail"
          /\ log[i].after[log[i].file] = log[i].before[log[i].file]

C1_Witness ==
    \E i \in DOMAIN log :
       /\ AnchorAbsent(log[i])
       /\ log[i].outcome = "fail"
       /\ log[i].before[log[i].file].content # <<>>

\* C2: whenever an action of a FileChange on a file that existed before the
\* FileChange fails or raises, the file is back to its content of before the
\* FileChange right after that action.
C2_FailureRestoresBackup ==
    \A i \in DOMAIN log :
       (NotOk(log[i]) /\ IsFile(starts[log[i].change], log[i].file)) =>
          log[i].after[log[i].file] = starts[log[i].change][log[i].file]

\* C3: after an action of a FileChange failed or raised, no later action of
\* the same FileChange is applied.
C3_FailureEndsFileChange ==
    \A i \in DOMAIN log : \A j \in DOMAIN log :
       (i < j /\ NotOk(log[i])) => log[j].change # log[i].change

\* C4: the list apply_modifications returns holds, in application order,
\* exactly the attempted actions that returned failure or raised.
C4_IncompleteListExact ==
    Returned => incomplete_actions = Failures

C4_Witness ==
    /\ Returned
    /\ \E i \in DOMAIN log : log[i].outcome = "ok"
    /\ \E i \in DOMAIN log : log[i].outcome = "fail"
    /\ \E i \in DOMAIN log : log[i].outcome = "raise"

\* C5: an error raised while applying an action never makes
\* apply_modifications raise.
C5_NeverAborts == ~aborted

\* C6: when the first action of a FileChange is applied, its target exists as
\* a regular file (an empty placeholder was created if it was missing).
C6_PlaceholderCreated ==
    \A i \in DOMAIN log :
       log[i].index = 1 => IsFile(log[i].before, log[i].file)

\* C7: once run() has returned, no backup copy written during the run is left.
C7_BackupsDeleted ==
    pc = "done" => \A p \in backups : ~IsFile(tree, p)

\* C8: the actions are applied one at a time in ChangeSet order, each on the
\* tree left by the previous action of its FileChange, and all of them once
\* the call returns.
C8_AppliedInOrder ==
    /\ Applied = SubSeq(Flatten(changes, 1), 1, Len(log))
    /\ \A i \in DOMAIN log :
          (i > 1 /\ log[i - 1].change = log[i].change) =>
             log[i].before = log[i - 1].after
    /\ Returned => Len(log) = Len(Flatten(changes, 1))

C8_Witness ==
    /\ Returned
    /\ Len(changes) = 2
    /\ \E c \in DOMAIN changes :
          /\ Len(changes[c].actions) = 2
          /\ changes[c].actions[1] # changes[c].actions[2]
    /\ \A i \in DOMAIN log : log[i].outcome = "ok"

\* An I/O error stands in the way of writing the file: a component of its
\* directory is a regular file, or the path is a directory.
WriteBlocked(t, filepath) ==
    \/ \E p \in Prefixes(Dirname(filepath)) : IsFile(t, p)
    \/ IsDir(t, filepath)

WritesFile(e) == e.action.action \in {"create_file", "replace_file"}

\* C9: absent an I/O error, create_file and replace_file succeed, create the
\* missing parent directories and leave the file holding each content line
\* followed by a line break, whatever it held before.
C9_CreateWritesLines ==
    \A i \in DOMAIN log :
       (WritesFile(log[i]) /\ ~WriteBlocked(log[i].before, log[i].file)) =>
          /\ log[i].outcome = "ok"
          /\ log[i].after[log[i].file] = File(LinesText(log[i].action.file_content))
          /\ \A p \in Prefixes(Dirname(log[i].file)) : IsDir(log[i].after, p)

C9_Witness ==
    \E i \in DOMAIN log :
       /\ log[i].action =
             [action |-> "create_file",
              file_content |-> << <<"a">>, <<"b", "a">> >>]
       /\ log[i].file = DeepFile
       /\ \A p \in Prefixes(DeepFile) : ~Exists(log[i].before, p)
       /\ \A p \in Prefixes(Dirname(DeepFile)) : IsDir(log[i].after, p)
       /\ log[i].after[DeepFile] = File(<<"a", NL, "b", "a", NL>>)

\* C10: a remove_file on a path that does not exist returns failure without
\* raising, and one on an existing file deletes it and returns success.
C10_RemoveFile ==
    \A i \in DOMAIN log :
       log[i].action.action = "remove_file" =>
          IF IsFile(log[i].before, log[i].file)
          THEN log[i].outcome = "ok" /\ ~Exists(log[i].after, log[i].file)
          ELSE log[i].outcome = "fail"

\* The positions at which pat occurs in content.
Occurrences(content, pat) ==
    { i \in 1..(Len(content) + 1) : StartsWithAt(content, pat, i) }

\* A logged replace_section on a file holding original_content exactly once.
AnchorOnce(e) ==
    /\ e.action.action = "replace_section"
    /\ IsFile(e.before, e.file)
    /\ Cardinality(Occurrences(e.before[e.file].content,
                                e.action.original_content)) = 1

\* C11: a replace_section whose original_content occurs exactly once in the
\* file succeeds and leaves the text before the occurrence, the new lines
\* joined by line breaks, and the text after the occurrence.
C11_SingleOccurrenceReplaced ==
    \A k \in DOMAIN log :
       AnchorOnce(log[k]) =>
          LET content == log[k].before[log[k].file].content
              X == log[k].action.original_content
              i == CHOOSE j \in Occurrences(content, X) : TRUE
          IN /\ log[k].outcome = "ok"
             /\ log[k].after[log[k].file] =
                   File(SubSeq(content, 1, i - 1)
                        \o Join(log[k].action.file_content, <<NL>>)
                        \o SubSeq(content, i + Len(X), Len(content)))

C11_Witness ==
    \E k \in DOMAIN log :
       /\ AnchorOnce(log[k])
       /\ log[k].outcome = "ok"
       /\ log[k].action.original_content = <<"b">>
       /\ log[k].action.file_content = << <<"a">>, <<"b", "a">> >>
       /\ log[k].before[log[k].file].content = <<"a", "b", NL>>
       /\ log[k].after[log[k].file].content = <<"a", "a", NL, "b", "a", NL>>

\* Some line of ls holds the marker.
MarkerIn(ls, marker) == \E k \in DOMAIN ls : Contains(ls[k], marker)

\* The lines of ls that hold the marker.
MarkerLines(ls, marker) == { k \in DOMAIN ls : Contains(ls[k], marker) }

IsMarkerAction(e) == e.action.action = "replace_between_markers"

\* C12: a replace_between_markers on lines that lack the start marker or the
\* end marker leaves the line sequence as it was.
C12_MissingMarkerNoMutation ==
    \A i \in DOMAIN fme_log :
       (/\ IsMarkerAction(fme_log[i])
        /\ \/ ~MarkerIn(fme_log[i].before, fme_log[i].action.start_marker)
           \/ ~MarkerIn(fme_log[i].before, fme_log[i].action.end_marker))
       => fme_log[i].after = fme_log[i].before

\* C13: a replace_between_markers on lines with one start-marker line s and
\* one later end-marker line e replaces lines s..e, marker lines included, by
\* new_content.
C13_MarkersReplacedInclusive ==
    \A i \in DOMAIN fme_log :
       LET before == fme_log[i].before
           starts_at == MarkerLines(before, fme_log[i].action.start_marker)
           ends_at == MarkerLines(before, fme_log[i].action.end_marker)
       IN (/\ IsMarkerAction(fme_log[i])
           /\ Cardinality(starts_at) = 1
           /\ Cardinality(ends_at) = 1
           /\ \A s \in starts_at : \A e \in ends_at : s < e)
          => LET s == CHOOSE k \in starts_at : TRUE
                 e == CHOOSE k \in ends_at : TRUE
             IN fme_log[i].after =
                  SubSeq(before, 1, s - 1) \o fme_log[i].action.new_content
                  \o SubSeq(before, e + 1, Len(before))

\* C14: _apply_action on path P leaves every regular file other than P as
\* it was, existence and content, whether it returns True, False or raises.
C14_OtherFilesUntouched ==
    \A i \in DOMAIN log :
       \A p \in Paths \ {log[i].file} :
          (IsFile(log[i].before, p) \/ IsFile(log[i].applied, p)) =>
             log[i].applied[p] = log[i].before[p]

C14_Witness ==
    /\ \E i \in DOMAIN log :
          /\ log[i].outcome = "ok"
          /\ log[i].applied[log[i].file] # log[i].before[log[i].file]
          /\ \E p \in Paths \ {log[i].file} : IsFile(log[i].before, p)
          /\ \E p \in Paths : ~Exists(log[i].before, p) /\ IsDir(log[i].applied, p)
    /\ \E i \in DOMAIN log :
          /\ log[i].outcome = "raise"
          /\ \E p \in Paths \ {log[i].file} : IsFile(log[i].before, p)

\* parse_custom_format has run on the payload.
Parsed == pc # "parse" /\ modifications # NoFile

\* The text behind the last reasoning sentinel of a payload.
AfterLastThink(content) ==
    LET at == { i \in DOMAIN content : content[i] = Think }
    IN IF at = {} THEN content
       ELSE SubSeq(content, 1 + CHOOSE i \in at : \A j \in at : i >= j,
                   Len(content))

\* C15: the ChangeSet parsed from a payload with reasoning sentinels is the
\* one the text behind the last sentinel holds: no envelope before it
\* contributes and every envelope behind it does.
C15_AfterLastSentinel ==
    Parsed => changes = parse_custom_format(AfterLastThink(modifications))

\* The files and action kinds a list of payload pieces stands for: a header
\* opens a FileChange, a complete envelope adds its kind to the open one, an
\* incomplete envelope adds nothing.
RECURSIVE Assemble(_, _)
Assemble(list, acc) ==
    IF list = <<>> THEN acc
    ELSE LET i == Head(list)
         IN Assemble(Tail(list),
               IF i.header THEN Append(acc, [file |-> i.file, kinds |-> <<>>])
               ELSE IF i.complete
               THEN [acc EXCEPT ![Len(acc)].kinds = Append(@, i.kind)]
               ELSE acc)

\* The files and action kinds of the parsed ChangeSet.
ParsedShape ==
    [c \in DOMAIN changes |->
       [file |-> changes[c].file,
        kinds |-> [a \in DOMAIN changes[c].actions |->
                     changes[c].actions[a].action]]]

\* C16: envelopes of an unknown kind or without a field they need add no
\* action, and every complete envelope of the payload is parsed, under its
\* own file and in payload order.
C16_ParsePerAction ==
    (Parsed /\ items # <<>>) => ParsedShape = Assemble(items, <<>>)

C16_Witness ==
    /\ Parsed
    /\ Len(items) = 4
    /\ ~items[2].header /\ items[2].kind = "rename_file"
    /\ ~items[3].header /\ items[3].complete
    /\ ~items[4].header /\ ~items[4].complete /\ items[4].kind = "create_file"
    /\ Len(changes) = 1
    /\ Len(changes[1].actions) = 1

\* The lines of a field text without its leading and trailing blank lines.
TrimBlankLines(text) ==
    LET all == SplitLines(text)
        solid == { k \in DOMAIN all : \E c \in DOMAIN all[k] : all[k][c] # " " }
    IN IF solid = {} THEN <<>>
       ELSE SubSeq(all, CHOOSE k \in solid : \A j \in solid : k <= j,
                        CHOOSE k \in solid : \A j \in solid : k >= j)

HasContent(i) ==
    ~i.header /\ i.complete
    /\ i.kind \in {"create_file", "replace_file", "replace_section"}

LoggedContent(e) ==
    e.action.action \in {"create_file", "replace_file", "replace_section"}

\* C17: the content lines an action carries to the file are the lines
\* between the file-content sentinels of its envelope, less the leading and
\* trailing blank lines, and create_file and replace_file write exactly these.
C17_WhitespacePreserved ==
    (Parsed /\ items # <<>>) =>
       LET supplied == SelectSeq(items, HasContent)
           applied == SelectSeq(log, LoggedContent)
       IN \A k \in DOMAIN applied :
             LET given == TrimBlankLines(supplied[k].field)
             IN /\ applied[k].action.file_content = given
                /\ (WritesFile(applied[k]) /\ applied[k].outcome = "ok") =>
                      applied[k].after[applied[k].file] = File(LinesText(given))

\* The git apply calls made for a fragment.
AttemptsOn(pf) ==
    LET Mine(a) == a.patch = pf
    IN SelectSeq(sp_attempts, Mine)

\* The hunks of the fragment patch_N.patch of the payload: its hunk headers,
\* or the fragment as one when it has none.
HunksOf(pf) ==
    LET patches == SplitAtFrom(sp_disk[ChangesPatch].content, DiffGit, 1, <<>>)
        text == Py(patches, pf[2])
        headers == Cardinality({ i \in DOMAIN text : text[i] = HunkHeader })
    IN IF headers = 0 THEN 1 ELSE headers

\* C18: when split_and_apply_patches has returned, every hunk was handed to
\* git apply once, and every hunk whose git apply failed is on disk as a
\* file that holds exactly that hunk.
C18_FailedHunksKept ==
    sp_pc = "done" =>
       /\ \A k \in DOMAIN sp_listed :
             Len(AttemptsOn(sp_listed[k])) = HunksOf(sp_listed[k])
       /\ \A a \in DOMAIN sp_attempts :
             ~sp_attempts[a].ok =>
                \E n \in SpNames : sp_disk[n] = File(sp_attempts[a].content)

\* C19: when split_and_apply_patches has returned, a fragment is gone from
\* the disk exactly when every git apply made for it succeeded, and every
\* fragment listed was processed, whatever failed before it.
C19_FragmentDeletedIff ==
    sp_pc = "done" =>
       \A k \in DOMAIN sp_listed :
          LET pf == sp_listed[k]
              mine == AttemptsOn(pf)
          IN /\ Len(mine) = HunksOf(pf)
             /\ sp_disk[pf].kind = "absent" <=> \A a \in DOMAIN mine : mine[a].ok

C19_Witness ==
    /\ sp_pc = "done"
    /\ Len(sp_listed) = 2
    /\ Len(AttemptsOn(sp_listed[1])) = 2
    /\ AttemptsOn(sp_listed[1])[1].ok
    /\ ~AttemptsOn(sp_listed[1])[2].ok
    /\ sp_disk[sp_listed[1]].kind = "file"
    /\ Len(AttemptsOn(sp_listed[2])) = 1
    /\ AttemptsOn(sp_listed[2])[1].file = sp_listed[2]
    /\ sp_disk[sp_listed[2]].kind = "absent"

\* C20: once missing credentials or a malformed configuration file have
\* been met, no file of the tree has been changed and no iteration is under
\* way again.
C20_FatalAborts ==
    fatal =>
       /\ tree = InitialTree
       /\ pc \notin {"collect", "request", "parse", "change", "action"}

\* C21: whenever actions.txt holds what save_actions writes for the list of
\* incomplete actions, load_actions returns that list from it.
C21_ReportReplayable ==
    (actions_txt # NoFile /\ actions_txt = save_actions(incomplete_actions)) =>
       load_actions(actions_txt) = incomplete_actions

\* C22: the restore after a raising action leaves the file as the earlier
\* successful actions of the same FileChange made it.
C22_RestoreKeepsSuccesses ==
    \A i \in DOMAIN log : \A j \in DOMAIN log :
       (/\ i < j
        /\ log[i].change = log[j].change
        /\ log[i].outcome = "ok"
        /\ log[j].outcome = "raise") =>
          log[j].after[log[j].file] = log[j].before[log[j].file]

\* A logged action that raised and whose except branch copied the backup
\* back over the file.
Restored(e) ==
    /\ e.outcome = "raise"
    /\ Exists(e.applied, BackupPath(e.file))
    /\ ~RestoreBackup(e.applied, e.file).raised

\* C23: a restore leaves the file as it was when its FileChange began.
C23_RestoreFromOwnBackup ==
    \A i \in DOMAIN log :
       Restored(log[i]) =>
          log[i].after[log[i].file] = starts[log[i].change][log[i].file]

\* C24: a file named *.bak that was there before the first FileChange keeps
\* its content through the backups apply_modifications takes and through the
\* sweep of cleanup_bak_files that follows it.
C24_ForeignBackupsKept ==
    \A p \in Paths :
       (/\ starts # <<>>
        /\ IsFile(starts[1], p)
        /\ EndsWithBak(Basename(p))) =>
          /\ tree[p] = starts[1][p]
          /\ SweptTree(tree)[p] = starts[1][p]

\* The fragments split_patch_file writes of the payload in changes.patch.
Produced ==
    LET patches == SplitAtFrom(sp_disk[ChangesPatch].content, DiffGit, 1, <<>>)
    IN { PatchName(i) : i \in 1..(Len(patches) - 1) }

\* C25: every git apply of a call is made for a fragment of the payload of
\* that call, and when the call has returned each hunk of these fragments
\* was handed to git apply once.
C25_OnlyOwnFragments ==
    /\ \A a \in DOMAIN sp_attempts : sp_attempts[a].patch \in Produced
    /\ sp_pc = "done" =>
          \A pf \in Produced : Len(AttemptsOn(pf)) = HunksOf(pf)

====
